---- MODULE Spec2Model ----
(***************************************************************************)
(* Model of dellfan.py: the sensor poll thread (SensorDataThread), the     *)
(* one-shot fan control threads (FanControlThread) and the handlers of     *)
(* DellFanControllerGUI that start, stop and feed them.                    *)
(*                                                                         *)
(* Text is modelled as a sequence of one-character strings, so that        *)
(* str.strip, str.splitlines, str.split, re.search, int(), float() and the *)
(* format spec 02x are computed and not assumed.  The connection fields    *)
(* are plain strings: the code only tests them for emptiness and pastes    *)
(* them into the command line.                                             *)
(***************************************************************************)
EXTENDS Integers, Sequences, FiniteSets, TLC

\* ------------------------------------------------------------------ bounds
\* SensorDataThread objects created during one run (the first one by __init__).
MaxThreads == 2
\* Signals queued for the GUI thread and not yet delivered.
MaxQueue == 1
\* FanControlThread objects running at the same time.
MaxTasks == 2
\* Pieces a raw sensor dump is put together from.
MaxTokens == 4

\* ------------------------------------------------------- program constants
\* The speed used when the text box is empty, and by auto-adjust.
DefaultSpeed == <<"1", "0">>
\* QSpinBox range and initial value of the temperature threshold.
ThresholdMin == 0
ThresholdMax == 100
ThresholdDefault == 70

\* ---------------------------------------------------------------- text
Whitespace == {" ", "\n"}
Digits == <<"0", "1", "2", "3", "4", "5", "6", "7", "8", "9">>
HexDigits == <<"0", "1", "2", "3", "4", "5", "6", "7", "8", "9",
               "a", "b", "c", "d", "e", "f">>

IsDigit(c) == \E i \in 1..10 : Digits[i] = c
DigitVal(c) == (CHOOSE i \in 1..10 : Digits[i] = c) - 1

RECURSIVE LStrip(_)
LStrip(s) == IF s # <<>> /\ Head(s) \in Whitespace THEN LStrip(Tail(s)) ELSE s

RECURSIVE RStrip(_)
RStrip(s) ==
    IF s # <<>> /\ s[Len(s)] \in Whitespace THEN RStrip(SubSeq(s, 1, Len(s) - 1)) ELSE s

\* str.strip()
Strip(s) == RStrip(LStrip(s))

\* str.split(sep) for a one-character separator: always at least one piece.
RECURSIVE Split(_, _)
Split(s, sep) ==
    IF \A i \in 1..Len(s) : s[i] # sep
    THEN <<s>>
    ELSE LET k == CHOOSE i \in 1..Len(s) :
                      s[i] = sep /\ \A j \in 1..(i - 1) : s[j] # sep
         IN  <<SubSeq(s, 1, k - 1)>> \o Split(SubSeq(s, k + 1, Len(s)), sep)

\* str.splitlines(): no line for the empty text, none after a final newline.
SplitLines(s) ==
    IF s = <<>>
    THEN <<>>
    ELSE LET p == Split(s, "\n")
         IN  IF p[Len(p)] = <<>> THEN SubSeq(p, 1, Len(p) - 1) ELSE p

\* sub in s
Contains(s, sub) ==
    \E i \in 1..(Len(s) - Len(sub) + 1) : SubSeq(s, i, i + Len(sub) - 1) = sub

\* A sequence of digits read as a decimal numeral (0 for the empty one).
RECURSIVE DecimalValue(_)
DecimalValue(d) ==
    IF d = <<>> THEN 0
    ELSE 10 * DecimalValue(SubSeq(d, 1, Len(d) - 1)) + DigitVal(d[Len(d)])

AllDigits(d) == \A i \in 1..Len(d) : IsDigit(d[i])

RECURSIVE Pow10(_)
Pow10(n) == IF n = 0 THEN 1 ELSE 10 * Pow10(n - 1)

\* An optional sign split off the front: <<sign, rest>>.
Signed(s) ==
    IF s # <<>> /\ Head(s) = "-" THEN <<-1, Tail(s)>>
    ELSE IF s # <<>> /\ Head(s) = "+" THEN <<1, Tail(s)>>
    ELSE <<1, s>>

\* A variant of ParseInt that takes every text for the number 0.
ParseIntLenient(text) == [ok |-> TRUE, val |-> 0]

\* int(text): surrounding whitespace, an optional sign, then decimal digits.
\* (Digit grouping with "_" is not modelled; no modelled input contains one.)
ParseInt(text) ==
    LET sg == Signed(Strip(text))
    IN  IF sg[2] # <<>> /\ AllDigits(sg[2])
        THEN [ok |-> TRUE, val |-> sg[1] * DecimalValue(sg[2])]
        ELSE [ok |-> FALSE, val |-> 0]

\* A floating-point value: a finite ratio num/den (den a power of ten), or one
\* of the special values float() accepts by name.
Finite(n, d) == [kind |-> "fin", num |-> n, den |-> d]
PosInf == [kind |-> "inf", num |-> 1, den |-> 1]
NegInf == [kind |-> "ninf", num |-> -1, den |-> 1]
NaN == [kind |-> "nan", num |-> 0, den |-> 1]
FloatOfInt(n) == Finite(n, 1)

\* float(text): surrounding whitespace, an optional sign, then "nan", "inf" or
\* digits with at most one point and a digit on one side of it at least.
\* (Exponents, "_" and upper-case names are not modelled; no modelled input
\* uses them.)  ValueError is ok = FALSE.
ParseFloat(text) ==
    LET sg == Signed(Strip(text))
        body == sg[2]
        parts == Split(body, ".")
        bad == [ok |-> FALSE, val |-> NaN]
    IN  IF body = <<"n", "a", "n">> THEN [ok |-> TRUE, val |-> NaN]
        ELSE IF body = <<"i", "n", "f">>
             THEN [ok |-> TRUE, val |-> IF sg[1] = 1 THEN PosInf ELSE NegInf]
        ELSE IF Len(parts) = 1
             THEN IF body # <<>> /\ AllDigits(body)
                  THEN [ok |-> TRUE, val |-> Finite(sg[1] * DecimalValue(body), 1)]
                  ELSE bad
        ELSE IF Len(parts) = 2
             THEN IF AllDigits(parts[1]) /\ AllDigits(parts[2])
                     /\ Len(parts[1]) + Len(parts[2]) > 0
                  THEN [ok |-> TRUE,
                        val |-> Finite(sg[1] * DecimalValue(parts[1] \o parts[2]),
                                       Pow10(Len(parts[2])))]
                  ELSE bad
        ELSE bad

\* a > b on floats: false whenever a NaN is involved.
FloatGt(a, b) ==
    IF a.kind = "nan" \/ b.kind = "nan" THEN FALSE
    ELSE IF a.kind = "inf" THEN b.kind # "inf"
    ELSE IF a.kind = "ninf" THEN FALSE
    ELSE IF b.kind = "inf" THEN FALSE
    ELSE IF b.kind = "ninf" THEN TRUE
    ELSE a.num * b.den > b.num * a.den

\* max(a, b) of Python: the first argument unless the second is greater.
PyMax(a, b) == IF FloatGt(b, a) THEN b ELSE a

\* Hexadecimal digits of a natural number, at least one.
RECURSIVE HexOf(_)
HexOf(n) ==
    IF n < 16 THEN <<HexDigits[n + 1]>>
    ELSE HexOf(n \div 16) \o <<HexDigits[(n % 16) + 1]>>

\* format(n, "02x"): zero-padded to a width of two, the sign counted in the width.
Format02x(n) ==
    IF n >= 0
    THEN (IF n < 16 THEN <<"0">> ELSE <<>>) \o HexOf(n)
    ELSE <<"-">> \o HexOf(-n)

\* ------------------------------------------------------------ input values
\* Connection settings: two complete ones and one with each field empty.
MkConn(path, h, u, p) == [ipmitool_path |-> path, ip |-> h, user |-> u, password |-> p]
Conns ==
    { MkConn("ipmitool", "h1", "root", "pw"),
      MkConn("ipmitool", "h2", "root", "pw"),
      MkConn("", "h1", "root", "pw"),
      MkConn("ipmitool", "", "root", "pw"),
      MkConn("ipmitool", "h1", "", "pw"),
      MkConn("ipmitool", "h1", "root", "") }
\* The settings saved in the dialog: a complete one and one with no host.
SavedConns == { MkConn("ipmitool", "h2", "root", "pw"), MkConn("ipmitool", "", "root", "pw") }
OneConn == { MkConn("ipmitool", "h1", "root", "pw") }
\* A setting saved in the dialog that differs from the loaded one in all four fields.
MovedConns == { MkConn("tools/ipmitool", "h2", "admin", "pw2") }

tTemp == <<"T", "e", "m", "p">>
tRPM == <<"R", "P", "M">>
\* Sensor dumps as the tool prints them.
DumpHot == tTemp \o <<"|", "7", "5">>                        \* "Temp|75"
DumpEq == tTemp \o <<"|", " ", "7", "0", ".", "0", " ", "|", "o", "k">>   \* "Temp| 70.0 |ok"
DumpWarm == tTemp \o <<"|", "7", "0", ".", "5">> \o <<"\n">> \o tRPM \o <<"|", "9", "0">>
                                                             \* "Temp|70.5\nRPM|90"
DumpNa == <<"\n">> \o tTemp \o <<"|", "n", "a">> \o <<"\n">> \* "\nTemp|na\n"
DumpFan == tRPM \o <<"|", "9", "0">>                         \* "RPM|90"
DumpBare == tTemp                                            \* "Temp"
DumpOther == <<"o", "k">>                                    \* "ok"
DumpBlank == <<" ", "\n">>                                   \* " \n"
DumpNothing == <<>>                                          \* ""
PollDumps == {DumpHot, DumpEq, DumpOther, DumpBlank, DumpNothing}
PolicyDumps == {DumpHot, DumpEq, DumpWarm, DumpNa, DumpFan, DumpBare}

\* Raw dumps for parse_sensor_data: every text put together from at most
\* MaxTokens of these pieces.
ParseTokens == {tTemp, tRPM, <<"|">>, <<"\n">>, <<"t", "e", "m", "p">>, <<"x">>}

RECURSIVE Concat(_)
Concat(pieces) == IF pieces = <<>> THEN <<>> ELSE Head(pieces) \o Concat(Tail(pieces))

ParseDumps == { Concat(ts) : ts \in UNION { [1..n -> ParseTokens] : n \in 0..MaxTokens } }

\* What one subprocess.run can do: return with an exit code and an output, or
\* raise.  "exception" is an exception raised in the try block of
\* get_sensor_data after the command has returned.
Exit(rc, out) == [kind |-> "exit", rc |-> rc, stdout |-> out]
LaunchFailure == [kind |-> "launch_failure", rc |-> -1, stdout |-> <<>>]
FetchException == [kind |-> "exception", rc |-> -1, stdout |-> <<>>]
ExitCodes == {0, 1}
SensorOutcomes(dumps) ==
    {Exit(rc, d) : rc \in ExitCodes, d \in dumps} \cup {LaunchFailure, FetchException}
ControlOutcomes == {Exit(rc, <<>>) : rc \in ExitCodes} \cup {LaunchFailure}

\* Values the threshold spin box is set to.
Thresholds == {ThresholdMin, ThresholdDefault, ThresholdMax}

\* Texts typed into the speed box.
ActuatorTexts == { <<"5", "5">>, <<"3", "0", "0">>, <<"a">> }

\* Python's None, and a value that is not None.
None == [none |-> TRUE, val |-> <<>>]
Some(v) == [none |-> FALSE, val |-> v]

\* ------------------------------------------------------------------- state
VARIABLES
    ipmitool_path, ip, user, password,   \* DellFanControllerGUI connection fields
    speed_input,                         \* text of the speed box
    auto_adjust_checkbox,                \* isChecked()
    temp_threshold_input,                \* value()
    sensor_thread,                       \* DellFanControllerGUI.sensor_thread: 0 is None
    threads,                             \* every SensorDataThread created so far
    signals,                             \* emitted signals not yet delivered to the GUI thread
    tasks,                               \* running FanControlThreads, in launch order
    lastCycle,                           \* the poll cycle completed last
    lastDecision,                        \* the last run of auto_adjust_fan_speed
    lastAction,                          \* the control action finished last
    lastParse                            \* the last call of parse_sensor_data

connVars == <<ipmitool_path, ip, user, password>>
guiVars == <<speed_input, auto_adjust_checkbox, temp_threshold_input>>
vars == <<ipmitool_path, ip, user, password, speed_input, auto_adjust_checkbox,
          temp_threshold_input, sensor_thread, threads, signals, tasks,
          lastCycle, lastDecision, lastAction, lastParse>>

ThreadIds == 1..MaxThreads
NoThread == [state |-> "none", ipmitool_path |-> "", ip |-> "", user |-> "",
             password |-> "", quit |-> "no", post_quit |-> 0]
NoCycle == [done |-> FALSE, invoked |-> FALSE, outcome |-> "none", rc |-> -1,
            matched |-> FALSE, emitted |-> "none"]
NoDecision == [done |-> FALSE, data |-> <<>>, threshold |-> 0, speed |-> <<>>,
               function |-> "none", percent |-> <<>>]
NoAction == [origin |-> "none", function |-> "none", percent |-> <<>>, cmds |-> <<>>,
             rcs |-> <<>>, report |-> "none"]

NoParse == [done |-> FALSE, raw_output |-> <<>>, sensor_list |-> <<>>]

Created == {t \in ThreadIds : threads[t].state # "none"}

\* ------------------------------------------------------- SensorDataThread
\* SensorDataThread.__init__: the four fields are copied into the thread.
SensorDataThread(path, h, u, p) ==
    [state |-> "loop", ipmitool_path |-> path, ip |-> h, user |-> u, password |-> p,
     quit |-> "no", post_quit |-> 0]

\* The guard of get_sensor_data: which fields stop the fetch.
CredentialsMissing(self) == self.ip = "" \/ self.user = "" \/ self.password = ""

\* The command line of the sensor dump.
SensorCommand(self) ==
    [tool |-> self.ipmitool_path, host |-> self.ip, user |-> self.user,
     password |-> self.password, sub |-> "sensor", arg |-> <<>>]

\* execute_cmd: the stripped output whatever the exit code, None when run raises.
execute_cmd(outcome) ==
    IF outcome.kind = "launch_failure" THEN None ELSE Some(Strip(outcome.stdout))

\* parse_sensor_data: the lines matching Temp|RPM, each split at "|".
RECURSIVE ParseLines(_)
ParseLines(lines) ==
    IF lines = <<>> THEN <<>>
    ELSE (IF Contains(Head(lines), tTemp) \/ Contains(Head(lines), tRPM)
          THEN <<Split(Head(lines), "|")>> ELSE <<>>) \o ParseLines(Tail(lines))

\* A variant of parse_sensor_data that keeps every line.
parse_every_line(raw_output) ==
    [k \in 1..Len(SplitLines(raw_output)) |-> Split(SplitLines(raw_output)[k], "|")]

parse_sensor_data(raw_output) == ParseLines(SplitLines(raw_output))

\* Whether get_sensor_data hands a result to parse_sensor_data.
ParseInvoked(outcome) ==
    /\ outcome.kind # "exception"
    /\ ~execute_cmd(outcome).none
    /\ execute_cmd(outcome).val # <<>>

\* A call of parse_sensor_data with its argument and its return value.
Parsed(raw_output) ==
    [done |-> TRUE, raw_output |-> raw_output, sensor_list |-> parse_sensor_data(raw_output)]

\* parse_sensor_data called on the raw output held in lastParse.
ParseSensorData ==
    /\ ~lastParse.done
    /\ lastParse' = Parsed(lastParse.raw_output)
    /\ UNCHANGED <<connVars, guiVars, sensor_thread, threads, signals, tasks, lastCycle,
                   lastDecision, lastAction>>

\* get_sensor_data once the command has returned or raised.
SensorDataOf(outcome) ==
    IF outcome.kind = "exception" THEN None
    ELSE LET result == execute_cmd(outcome)
         IN  IF ~result.none /\ result.val # <<>>
             THEN Some(parse_sensor_data(result.val))
             ELSE Some(<<>>)

\* The signal run() emits for a fetch result, "none" for no signal.
EmittedFor(sensor_data) ==
    IF ~sensor_data.none
    THEN IF sensor_data.val # <<>> THEN "data_ready" ELSE "error_occurred"
    ELSE "none"

\* Where run() goes after a cycle: back to the top of "while True".
AfterCycle(sensor_data) == "loop"

\* QThread.quit(): asks the thread's event loop to exit.  run() is overridden
\* and starts no event loop, so the request is recorded (with the handler that
\* made it) and read by nobody.
Quit(th, caller) == [th EXCEPT !.quit = caller]

\* Whether run() leaves its loop at the top of an iteration.
RunStops(self) == FALSE

\* run(), top of the loop up to the start of the command: get_sensor_data
\* returns None at once when a credential is missing (no signal, sleep, next
\* iteration), and otherwise hands the sensor command to the executor.
SensorFetch(t) ==
    /\ threads[t].state = "loop"
    /\ ~RunStops(threads[t])
    /\ IF CredentialsMissing(threads[t])
       THEN /\ lastCycle' = [done |-> TRUE, invoked |-> FALSE, outcome |-> "none", rc |-> -1,
                             matched |-> FALSE, emitted |-> EmittedFor(None)]
            /\ threads' = [threads EXCEPT ![t].state = AfterCycle(None)]
       ELSE /\ threads' = [threads EXCEPT
                  ![t].state = "exec",
                  ![t].post_quit = IF threads[t].quit # "no" THEN 1 ELSE 0]
            /\ UNCHANGED lastCycle
    /\ UNCHANGED <<lastParse, connVars, guiVars, sensor_thread, signals, tasks, lastDecision,
                   lastAction>>

\* run(), from the return of the command to the end of the sleep: the result
\* is parsed, a signal is emitted (queued for the GUI thread) or not.
SensorFetched(t, outcome) ==
    /\ threads[t].state = "exec"
    /\ LET sensor_data == SensorDataOf(outcome)
           sig == EmittedFor(sensor_data)
       IN  /\ sig # "none" => Len(signals) < MaxQueue
           /\ signals' = IF sig = "none" THEN signals
                         ELSE Append(signals, [sig |-> sig, data |-> sensor_data.val])
           /\ lastCycle' = [done |-> TRUE, invoked |-> TRUE, outcome |-> outcome.kind,
                            rc |-> outcome.rc,
                            matched |-> parse_sensor_data(Strip(outcome.stdout)) # <<>>,
                            emitted |-> sig]
           /\ threads' = [threads EXCEPT ![t].state = AfterCycle(sensor_data)]
           /\ lastParse' = IF ParseInvoked(outcome)
                            THEN Parsed(execute_cmd(outcome).val)
                            ELSE lastParse
    /\ UNCHANGED <<connVars, guiVars, sensor_thread, tasks, lastDecision, lastAction>>

\* ------------------------------------------------------- FanControlThread
\* FanControlThread.__init__ with the bound method and its argument tuple;
\* origin names the handler that created it.
FanControlThread(path, function, h, u, p, percent, origin) ==
    [origin |-> origin, function |-> function, ipmitool_path |-> path,
     ip |-> h, user |-> u, password |-> p, percent |-> percent,
     pc |-> "start", cmds |-> <<>>, rcs |-> <<>>]

\* The command lines of the control functions: the tool path is read from the
\* GUI object when the line is built, the rest comes from the arguments.
ControlCommand(path, task, sub, arg) ==
    [tool |-> path, host |-> task.ip, user |-> task.user, password |-> task.password,
     sub |-> sub, arg |-> arg]

\* A variant of AutoPercent that takes the text of the speed box when there is one.
AutoPercentFromBox(text) == IF text # <<>> THEN text ELSE DefaultSpeed

\* The percent auto-adjust passes to execute_set_fan_speed.
AutoPercent(text) == DefaultSpeed

\* A variant of ManualPercent that passes the text of the box as it is.
ManualPercentAsTyped(text) == text

\* The percent the set-speed button passes: the text of the box, or "10".
ManualPercent(text) == IF text # <<>> THEN text ELSE DefaultSpeed

\* The payload of the set-duty command for int(percent).
DutyArg(percent_num) == Format02x(percent_num)

\* What execute_set_fan_speed prints after both commands returned.
SetSpeedReport(rc1, rc2) == IF rc1 = 0 /\ rc2 = 0 THEN "succeeded" ELSE "failed"

\* What execute_reset_fan_control prints.
ResetReport(rc) == IF rc = 0 THEN "succeeded" ELSE "failed"

\* A variant of ContinuesAfterDisable that gives up when the disable command failed.
ContinuesOnlyAfterSuccess(rc) == rc = 0

\* Whether execute_set_fan_speed goes on to the set-duty command after the
\* disable command returned with exit code rc.
ContinuesAfterDisable(rc) == TRUE

Finished(task, cmds, rcs, report) ==
    [origin |-> task.origin, function |-> task.function, percent |-> task.percent,
     cmds |-> cmds, rcs |-> rcs, report |-> report]

Remove(seq, i) == SubSeq(seq, 1, i - 1) \o SubSeq(seq, i + 1, Len(seq))

\* FanControlThread.run up to the return of the first command.
\* execute_reset_fan_control: one command, no try block.
\* execute_set_fan_speed: int(percent) first; a ValueError, or an exception of
\* the first run, ends the function in its except clause.
FanControlFirst(i, outcome) ==
    /\ i \in 1..Len(tasks)
    /\ tasks[i].pc = "start"
    /\ LET task == tasks[i]
           n == ParseInt(task.percent)
       IN  IF task.function = "execute_reset_fan_control"
           THEN LET cmd == ControlCommand(ipmitool_path, task, "reset", <<>>)
                IN  /\ tasks' = Remove(tasks, i)
                    /\ lastAction' =
                         IF outcome.kind = "exit"
                         THEN Finished(task, <<cmd>>, <<outcome.rc>>, ResetReport(outcome.rc))
                         ELSE Finished(task, <<cmd>>, <<>>, "uncaught")
           ELSE IF ~n.ok
           THEN /\ tasks' = Remove(tasks, i)
                /\ lastAction' = Finished(task, <<>>, <<>>, "exception")
           ELSE LET cmd == ControlCommand(ipmitool_path, task, "disable", <<>>)
                IN  IF outcome.kind = "exit" /\ ContinuesAfterDisable(outcome.rc)
                    THEN /\ tasks' = [tasks EXCEPT ![i].pc = "set_speed",
                                                   ![i].cmds = <<cmd>>,
                                                   ![i].rcs = <<outcome.rc>>]
                         /\ UNCHANGED lastAction
                    ELSE /\ tasks' = Remove(tasks, i)
                         /\ lastAction' =
                              IF outcome.kind = "exit"
                              THEN Finished(task, <<cmd>>, <<outcome.rc>>, "failed")
                              ELSE Finished(task, <<cmd>>, <<>>, "exception")
    /\ UNCHANGED <<lastParse, connVars, guiVars, sensor_thread, threads, signals, lastCycle,
                   lastDecision>>

\* execute_set_fan_speed from the set-duty command to the end.
FanControlSecond(i, outcome) ==
    /\ i \in 1..Len(tasks)
    /\ tasks[i].pc = "set_speed"
    /\ LET task == tasks[i]
           n == ParseInt(task.percent)
           cmd == ControlCommand(ipmitool_path, task, "duty", DutyArg(n.val))
       IN  /\ tasks' = Remove(tasks, i)
           /\ lastAction' =
                IF outcome.kind = "exit"
                THEN Finished(task, Append(task.cmds, cmd), Append(task.rcs, outcome.rc),
                              SetSpeedReport(task.rcs[1], outcome.rc))
                ELSE Finished(task, Append(task.cmds, cmd), task.rcs, "exception")
    /\ UNCHANGED <<lastParse, connVars, guiVars, sensor_thread, threads, signals, lastCycle,
                   lastDecision>>

\* ---------------------------------------------------- DellFanControllerGUI
\* start_sensor_thread with the connection fields given: quit() on the thread
\* held, then a new thread with a copy of the fields is started and held.
StartSensorThread(path, h, u, p) ==
    LET n == Cardinality(Created) + 1
        old == IF sensor_thread # 0
               THEN [threads EXCEPT ![sensor_thread] = Quit(@, "start_sensor_thread")]
               ELSE threads
    IN  /\ n <= MaxThreads
        /\ threads' = [old EXCEPT ![n] = SensorDataThread(path, h, u, p)]
        /\ sensor_thread' = n

\* toggle_auto_adjust, called on every change of the check box.
ToggleAutoAdjust ==
    /\ auto_adjust_checkbox' = ~auto_adjust_checkbox
    /\ IF auto_adjust_checkbox'
       THEN StartSensorThread(ipmitool_path, ip, user, password)
       ELSE IF sensor_thread # 0
            THEN /\ threads' = [threads EXCEPT ![sensor_thread] =
                                                Quit(@, "toggle_auto_adjust")]
                 /\ sensor_thread' = 0
            ELSE UNCHANGED <<threads, sensor_thread>>
    /\ UNCHANGED <<lastParse, connVars, speed_input, temp_threshold_input, signals, tasks,
                   lastCycle, lastDecision, lastAction>>

\* save_settings: OK in the settings dialog.
SaveSettings(c) ==
    /\ ip' = c.ip
    /\ user' = c.user
    /\ password' = c.password
    /\ ipmitool_path' = c.ipmitool_path
    /\ StartSensorThread(c.ipmitool_path, c.ip, c.user, c.password)
    /\ UNCHANGED <<lastParse, guiVars, signals, tasks, lastCycle, lastDecision, lastAction>>

\* The user edits the speed box.
EditSpeed(text) ==
    /\ speed_input # text
    /\ speed_input' = text
    /\ UNCHANGED <<lastParse, connVars, auto_adjust_checkbox, temp_threshold_input, sensor_thread,
                   threads, signals, tasks, lastCycle, lastDecision, lastAction>>

\* The user changes the threshold spin box.
SetThreshold(v) ==
    /\ v \in ThresholdMin..ThresholdMax
    /\ temp_threshold_input # v
    /\ temp_threshold_input' = v
    /\ UNCHANGED <<lastParse, connVars, speed_input, auto_adjust_checkbox, sensor_thread,
                   threads, signals, tasks, lastCycle, lastDecision, lastAction>>

Launch(task) ==
    /\ Len(tasks) < MaxTasks
    /\ tasks' = Append(tasks, task)

\* reset_fan_control: the reset button.
ResetFanControl ==
    /\ Launch(FanControlThread(ipmitool_path, "execute_reset_fan_control",
                               ip, user, password, <<>>, "reset_fan_control"))
    /\ UNCHANGED <<lastParse, connVars, guiVars, sensor_thread, threads, signals, lastCycle,
                   lastDecision, lastAction>>

\* set_fan_speed: the set-speed button.
SetFanSpeed ==
    /\ Launch(FanControlThread(ipmitool_path, "execute_set_fan_speed",
                               ip, user, password, ManualPercent(speed_input),
                               "set_fan_speed"))
    /\ UNCHANGED <<lastParse, connVars, guiVars, sensor_thread, threads, signals, lastCycle,
                   lastDecision, lastAction>>

\* The loop of auto_adjust_fan_speed: the running maximum, or IndexError when
\* a reading named Temp has no second field.
RECURSIVE ScanMax(_, _)
ScanMax(sensor_data, max_temp) ==
    IF sensor_data = <<>> THEN [raised |-> FALSE, val |-> max_temp]
    ELSE LET sensor == Head(sensor_data)
         IN  IF Contains(sensor[1], tTemp)
             THEN IF Len(sensor) < 2
                  THEN [raised |-> TRUE, val |-> max_temp]
                  ELSE LET temp == ParseFloat(sensor[2])
                       IN  ScanMax(Tail(sensor_data),
                                   IF temp.ok THEN PyMax(max_temp, temp.val) ELSE max_temp)
             ELSE ScanMax(Tail(sensor_data), max_temp)

\* The comparison of auto_adjust_fan_speed.
AboveThreshold(max_temp, threshold) == FloatGt(max_temp, FloatOfInt(threshold))

\* The function auto_adjust_fan_speed hands to the FanControlThread.
Decide(sensor_data, threshold) ==
    LET m == ScanMax(sensor_data, FloatOfInt(0))
    IN  IF m.raised THEN "IndexError"
        ELSE IF AboveThreshold(m.val, threshold) THEN "execute_reset_fan_control"
        ELSE "execute_set_fan_speed"

\* Delivery of the oldest queued signal to its slot in the GUI thread.
\* data_ready -> update_sensor_data: the table is filled and, with the box
\* checked, auto_adjust_fan_speed launches the action decided.
\* error_occurred -> show_settings_warning: the warning and the dialog are shown.
HandleSignal ==
    /\ signals # <<>>
    /\ LET s == Head(signals)
           function == Decide(s.data, temp_threshold_input)
           percent == IF function = "execute_set_fan_speed"
                      THEN AutoPercent(speed_input) ELSE <<>>
       IN  /\ signals' = Tail(signals)
           /\ IF s.sig = "data_ready" /\ auto_adjust_checkbox
              THEN /\ lastDecision' = [done |-> TRUE, data |-> s.data,
                                       threshold |-> temp_threshold_input,
                                       speed |-> speed_input, function |-> function,
                                       percent |-> percent]
                   /\ IF function # "IndexError"
                      THEN Launch(FanControlThread(ipmitool_path, function, ip, user,
                                                   password, percent,
                                                   "auto_adjust_fan_speed"))
                      ELSE UNCHANGED tasks
              ELSE UNCHANGED <<tasks, lastDecision>>
    /\ UNCHANGED <<lastParse, connVars, guiVars, sensor_thread, threads, lastCycle, lastAction>>

\* ---------------------------------------------------------- specifications
\* The state after DellFanControllerGUI.__init__: the settings loaded from the
\* file, the box unchecked, the threshold at its default, the first sensor
\* thread started with the loaded settings.
GuiConstructed(conns) ==
    /\ \E c \in conns :
         /\ ipmitool_path = c.ipmitool_path
         /\ ip = c.ip
         /\ user = c.user
         /\ password = c.password
         /\ threads = [t \in ThreadIds |->
                         IF t = 1
                         THEN SensorDataThread(c.ipmitool_path, c.ip, c.user, c.password)
                         ELSE NoThread]
    /\ speed_input = <<>>
    /\ auto_adjust_checkbox = FALSE
    /\ temp_threshold_input = ThresholdDefault
    /\ sensor_thread = 1
    /\ signals = <<>>
    /\ tasks = <<>>
    /\ lastCycle = NoCycle
    /\ lastDecision = NoDecision
    /\ lastAction = NoAction

InitWith(conns) == GuiConstructed(conns) /\ lastParse = NoParse

\* The poll session: every connection setting, every outcome of the sensor
\* command; the control commands all succeed.
InitPoll == InitWith(Conns)

NextPoll ==
    \/ ToggleAutoAdjust
    \/ \E c \in SavedConns : SaveSettings(c)
    \/ \E t \in ThreadIds : SensorFetch(t)
    \/ \E t \in ThreadIds, o \in SensorOutcomes(PollDumps) : SensorFetched(t, o)
    \/ HandleSignal
    \/ \E i \in 1..MaxTasks : FanControlFirst(i, Exit(0, <<>>))
    \/ \E i \in 1..MaxTasks : FanControlSecond(i, Exit(0, <<>>))

SpecPoll == InitPoll /\ [][NextPoll]_vars

\* The state in which the GUI thread is about to deliver one data_ready signal
\* with the box checked: the first thread was superseded when the box was
\* checked, the second has completed a fetch of the dump.
Delivering(c, dump, threshold, text) ==
    /\ ipmitool_path = c.ipmitool_path
    /\ ip = c.ip
    /\ user = c.user
    /\ password = c.password
    /\ threads = [t \in ThreadIds |->
                    IF t = 1
                    THEN Quit(SensorDataThread(c.ipmitool_path, c.ip, c.user, c.password),
                              "start_sensor_thread")
                    ELSE IF t = 2
                    THEN SensorDataThread(c.ipmitool_path, c.ip, c.user, c.password)
                    ELSE NoThread]
    /\ speed_input = text
    /\ auto_adjust_checkbox = TRUE
    /\ temp_threshold_input = threshold
    /\ sensor_thread = 2
    /\ signals = <<[sig |-> "data_ready", data |-> parse_sensor_data(dump)]>>
    /\ tasks = <<>>
    /\ lastCycle = [done |-> TRUE, invoked |-> TRUE, outcome |-> "exit", rc |-> 0,
                    matched |-> TRUE, emitted |-> "data_ready"]
    /\ lastDecision = NoDecision
    /\ lastAction = NoAction
    /\ lastParse = NoParse

\* The policy engine on its own: the GUI thread is about to deliver one
\* data_ready signal with the box checked (the first thread was superseded when
\* the box was checked), for every policy dump, every threshold of the spin box
\* and an empty or filled speed box.  The control commands all succeed.
InitPolicy ==
    \E c \in OneConn, dump \in PolicyDumps, threshold \in ThresholdMin..ThresholdMax,
       text \in {<<>>, <<"5", "5">>} :
        Delivering(c, dump, threshold, text)

NextPolicy ==
    \/ HandleSignal
    \/ \E i \in 1..MaxTasks : FanControlFirst(i, Exit(0, <<>>))
    \/ \E i \in 1..MaxTasks : FanControlSecond(i, Exit(0, <<>>))

SpecPolicy == InitPolicy /\ [][NextPolicy]_vars

\* The actuator: one complete connection setting, the two buttons and one
\* auto-adjust decision, the speed box empty at first and then filled with any
\* of the texts, every outcome of the control commands.
InitActuator ==
    \E c \in OneConn : Delivering(c, DumpEq, ThresholdDefault, <<>>)

NextActuator ==
    \/ \E text \in ActuatorTexts : EditSpeed(text)
    \/ ResetFanControl
    \/ SetFanSpeed
    \/ HandleSignal
    \/ \E i \in 1..MaxTasks, o \in ControlOutcomes : FanControlFirst(i, o)
    \/ \E i \in 1..MaxTasks, o \in ControlOutcomes : FanControlSecond(i, o)

SpecActuator == InitActuator /\ [][NextActuator]_vars

\* The buttons and the settings dialog: every loaded connection setting, the
\* two buttons, one save of a setting that differs in all four fields while
\* control threads are running.  The control commands all succeed.
InitConfig == InitWith(Conns)

NextConfig ==
    \/ \E c \in MovedConns : SaveSettings(c)
    \/ ResetFanControl
    \/ SetFanSpeed
    \/ \E i \in 1..MaxTasks : FanControlFirst(i, Exit(0, <<>>))
    \/ \E i \in 1..MaxTasks : FanControlSecond(i, Exit(0, <<>>))

SpecConfig == InitConfig /\ [][NextConfig]_vars

\* parse_sensor_data on its own: it is about to be called on any of the raw
\* dumps.
InitParse ==
    /\ GuiConstructed(OneConn)
    /\ \E raw_output \in ParseDumps :
         lastParse = [done |-> FALSE, raw_output |-> raw_output, sensor_list |-> <<>>]

NextParse == ParseSensorData

SpecParse == InitParse /\ [][NextParse]_vars

\* ------------------------------------------------------------------ claims
AllConnFieldsSet(self) ==
    self.ipmitool_path # "" /\ self.ip # "" /\ self.user # "" /\ self.password # ""

\* C1: a loop superseded by a start request begins no fetch after the request
\* has completed, so that one loop at most is fetching.
SupersededLoopFetchesNoMore ==
    \A t \in ThreadIds :
        threads[t].quit = "start_sensor_thread" => threads[t].post_quit = 0

\* C2: a loop stopped by unchecking the box begins no fetch after the stop; a
\* fetch in flight at the stop may finish.
StoppedLoopFetchesNoMore ==
    \A t \in ThreadIds :
        threads[t].quit = "toggle_auto_adjust" => threads[t].post_quit = 0

\* C3: no sensor command is handed to the executor by a thread whose copy of
\* the connection settings has one of the four fields empty.
NoFetchWithBlankField ==
    \A t \in ThreadIds : threads[t].state = "exec" => AllConnFieldsSet(threads[t])

\* C4: a poll cycle that is cut short because a connection field is empty
\* publishes the signal that leads to the settings prompt, and no other.
BlankCyclePublishesConfigurationMissing ==
    (lastCycle.done /\ ~lastCycle.invoked) => lastCycle.emitted = "error_occurred"

\* C5: a poll cycle whose sensor command fails (it cannot be launched, or it
\* exits with a non-zero code) publishes the error signal and not the readings.
FailedCommandPublishesFetchError ==
    (lastCycle.invoked
       /\ (lastCycle.outcome = "launch_failure"
             \/ (lastCycle.outcome = "exit" /\ lastCycle.rc # 0)))
    => lastCycle.emitted = "error_occurred"

\* C6: every poll cycle that fails (launch failure, non-zero exit, no matching
\* line, exception during the fetch) publishes a signal.
FailureCyclePublishesEvent ==
    (lastCycle.invoked
       /\ (lastCycle.outcome \in {"launch_failure", "exception"}
             \/ lastCycle.rc # 0
             \/ ~lastCycle.matched))
    => lastCycle.emitted # "none"

\* The readings auto_adjust_fan_speed can index: every reading named Temp has
\* a value field.
HasValueFields(data) ==
    \A i \in 1..Len(data) : Contains(data[i][1], tTemp) => Len(data[i]) >= 2

\* The successfully parsed values of the readings named Temp, and 0.
TempValues(data) ==
    { ParseFloat(data[i][2]).val :
        i \in { j \in 1..Len(data) : /\ Contains(data[j][1], tTemp)
                                     /\ Len(data[j]) >= 2
                                     /\ ParseFloat(data[j][2]).ok } }
    \cup { FloatOfInt(0) }

MaxOf(S) == CHOOSE m \in S : \A x \in S : ~FloatGt(x, m)

\* C7: for every reading sequence and threshold the decision is Reset exactly
\* when the maximum (from 0) of the parsed Temp values exceeds the threshold,
\* and SetPercent otherwise.
DecideIsResetExactlyAboveThreshold ==
    lastDecision.done =>
        /\ lastDecision.function \in {"execute_reset_fan_control", "execute_set_fan_speed"}
        /\ lastDecision.function = "execute_reset_fan_control"
             <=> FloatGt(MaxOf(TempValues(lastDecision.data)),
                         FloatOfInt(lastDecision.threshold))

\* The same for the readings whose Temp entries all have a value field: it
\* holds, so C7 fails on the readings of C17 alone.
DecideOnValueFields ==
    (lastDecision.done /\ HasValueFields(lastDecision.data)) =>
        /\ lastDecision.function \in {"execute_reset_fan_control", "execute_set_fan_speed"}
        /\ lastDecision.function = "execute_reset_fan_control"
             <=> FloatGt(MaxOf(TempValues(lastDecision.data)),
                         FloatOfInt(lastDecision.threshold))

\* C8 as stated: a SetPercent decision applies the text of the speed box when
\* there is one, and 10 otherwise.
AutoAppliesManualSpeed ==
    (lastDecision.done /\ lastDecision.function = "execute_set_fan_speed") =>
        lastDecision.percent =
            (IF lastDecision.speed # <<>> THEN lastDecision.speed ELSE <<"1", "0">>)

\* C8 as amended: a SetPercent decision applies 10 whatever the speed box
\* holds, and the set-duty command of the action carries 0x0a.
AutoAppliesTen ==
    /\ (lastDecision.done /\ lastDecision.function = "execute_set_fan_speed") =>
           lastDecision.percent = <<"1", "0">>
    /\ \A i \in 1..Len(tasks) :
           (tasks[i].origin = "auto_adjust_fan_speed"
              /\ tasks[i].function = "execute_set_fan_speed") =>
               tasks[i].percent = <<"1", "0">>
    /\ lastAction.origin = "auto_adjust_fan_speed" =>
           \A k \in 1..Len(lastAction.cmds) :
               lastAction.cmds[k].sub = "duty" => lastAction.cmds[k].arg = <<"0", "a">>

\* A SetPercent decision was taken with 55 in the speed box, and its action
\* has run to the end with a set-duty command.
AutoAppliesTenWitness ==
    /\ lastDecision.done
    /\ lastDecision.function = "execute_set_fan_speed"
    /\ lastDecision.speed = <<"5", "5">>
    /\ lastAction.origin = "auto_adjust_fan_speed"
    /\ Len(lastAction.cmds) = 2

Subs(cmds) == [k \in 1..Len(cmds) |-> cmds[k].sub]

SetSpeedFinished ==
    lastAction.function = "execute_set_fan_speed" /\ ParseInt(lastAction.percent).ok

\* C9 as stated: a set-speed action with an integer percent issues the disable
\* command and then the set-duty command, whatever the first one did.
SetDutyIssuedWhateverTheFirstDid ==
    SetSpeedFinished => Subs(lastAction.cmds) = <<"disable", "duty">>

\* C9 as amended: a set-speed action with an integer percent issues the disable
\* command first and the set-duty command second and no other; the set-duty
\* command is issued whatever exit code the first returned, and is not issued
\* when running the first raised; the report is success exactly when both exit
\* codes are zero, one failure otherwise.
SetSpeedIssuesBothCommands ==
    /\ \A i \in 1..Len(tasks) :
           tasks[i].pc = "set_speed" =>
               Subs(tasks[i].cmds) = <<"disable">> /\ Len(tasks[i].rcs) = 1
    /\ SetSpeedFinished =>
           /\ Subs(lastAction.cmds) \in {<<"disable">>, <<"disable", "duty">>}
           /\ Len(lastAction.rcs) >= 1 => Subs(lastAction.cmds) = <<"disable", "duty">>
           /\ Subs(lastAction.cmds) = <<"disable">> =>
                  lastAction.rcs = <<>> /\ lastAction.report = "exception"
           /\ lastAction.report = "succeeded" <=> lastAction.rcs = <<0, 0>>
           /\ (Len(lastAction.rcs) = 2 /\ lastAction.rcs # <<0, 0>>) =>
                  lastAction.report = "failed"
           /\ lastAction.report \in {"succeeded", "failed", "exception"}

\* A set-speed action whose disable command failed and whose set-duty command
\* was issued all the same and succeeded: one failure is reported.
SetSpeedPartialFailureWitness ==
    /\ SetSpeedFinished
    /\ Subs(lastAction.cmds) = <<"disable", "duty">>
    /\ lastAction.rcs = <<1, 0>>
    /\ lastAction.report = "failed"

IsHexDigit(c) == \E k \in 1..16 : HexDigits[k] = c

\* C10: every set-duty command carries a percent in 0..100 as two hex digits.
EveryDutyIsTwoHexDigitsOfPercent ==
    \A k \in 1..Len(lastAction.cmds) :
        lastAction.cmds[k].sub = "duty" =>
            /\ Len(lastAction.cmds[k].arg) = 2
            /\ \A j \in 1..Len(lastAction.cmds[k].arg) : IsHexDigit(lastAction.cmds[k].arg[j])
            /\ ParseInt(lastAction.percent).val \in 0..100

CommandFieldsSet(cmd) ==
    cmd.tool # "" /\ cmd.host # "" /\ cmd.user # "" /\ cmd.password # ""

\* C11: no control command (reset, disable, set-duty) is run with one of the
\* four connection fields empty.
NoControlCommandWithBlankField ==
    /\ \A i \in 1..Len(tasks) :
           \A k \in 1..Len(tasks[i].cmds) : CommandFieldsSet(tasks[i].cmds[k])
    /\ \A k \in 1..Len(lastAction.cmds) : CommandFieldsSet(lastAction.cmds[k])

SameConfiguration(c, d) ==
    c.tool = d.tool /\ c.host = d.host /\ c.user = d.user /\ c.password = d.password

\* C12: every command of a control thread is built from the four connection
\* fields as they were when the thread was created, so the two commands of
\* one set-speed action carry the same four fields.
ControlCommandsUseLaunchSnapshot ==
    /\ \A i \in 1..Len(tasks) :
           \A k \in 1..Len(tasks[i].cmds) :
               /\ tasks[i].cmds[k].tool = tasks[i].ipmitool_path
               /\ tasks[i].cmds[k].host = tasks[i].ip
               /\ tasks[i].cmds[k].user = tasks[i].user
               /\ tasks[i].cmds[k].password = tasks[i].password
    /\ Len(lastAction.cmds) = 2 =>
           SameConfiguration(lastAction.cmds[1], lastAction.cmds[2])

RECURSIVE Join(_, _)
Join(pieces, sep) ==
    IF pieces = <<>> THEN <<>>
    ELSE IF Len(pieces) = 1 THEN pieces[1]
    ELSE pieces[1] \o <<sep>> \o Join(Tail(pieces), sep)

CountOf(s, c) == Cardinality({i \in 1..Len(s) : s[i] = c})

\* lines are the lines of raw: none holds a newline, and put together with
\* newlines they give raw back, up to one final newline.
IsLinesOf(lines, raw) ==
    /\ \A k \in 1..Len(lines) : CountOf(lines[k], "\n") = 0
    /\ raw = <<>> => lines = <<>>
    /\ raw # <<>> =>
           IF raw[Len(raw)] = "\n"
           THEN Join(lines, "\n") \o <<"\n">> = raw
           ELSE lines # <<>> /\ Join(lines, "\n") = raw

\* The line holds the letters T e m p or R P M in a row, in this case.
NamesTempOrRPM(line) ==
    \/ \E i \in 1..(Len(line) - 3) :
           line[i] = "T" /\ line[i + 1] = "e" /\ line[i + 2] = "m" /\ line[i + 3] = "p"
    \/ \E i \in 1..(Len(line) - 2) :
           line[i] = "R" /\ line[i + 1] = "P" /\ line[i + 2] = "M"

\* C13: parse_sensor_data returns one reading for each line of the dump that
\* holds "Temp" or "RPM" (case-sensitive), in the order of the lines, and none
\* for any other line; the fields of a reading are its line split at "|" (as
\* many as delimiters plus one); a dump without such a line gives the empty
\* list.
ParseKeepsMatchingLinesInOrder ==
    lastParse.done =>
        LET raw == lastParse.raw_output
            out == lastParse.sensor_list
            lines == SplitLines(raw)
            hits == SelectSeq(lines, NamesTempOrRPM)
        IN  /\ IsLinesOf(lines, raw)
            /\ Len(out) = Len(hits)
            /\ \A k \in 1..Len(out) :
                   /\ Join(out[k], "|") = hits[k]
                   /\ Len(out[k]) = CountOf(hits[k], "|") + 1
                   /\ \A f \in 1..Len(out[k]) : CountOf(out[k][f], "|") = 0
            /\ (\A k \in 1..Len(lines) : ~NamesTempOrRPM(lines[k])) => out = <<>>

\* A dump of two lines has been parsed: the line without a sensor name is
\* dropped, the other one gives a reading of two fields.
ParseWitness ==
    /\ lastParse.done
    /\ Len(SplitLines(lastParse.raw_output)) = 2
    /\ Len(lastParse.sensor_list) = 1
    /\ Len(lastParse.sensor_list[1]) = 2

\* C14: the set-speed button passes 10 to execute_set_fan_speed when the speed
\* box is empty, and the text of the box otherwise.
ManualSetSpeedPassesBoxOrTen ==
    [][(Len(tasks') = Len(tasks) + 1 /\ tasks'[Len(tasks')].origin = "set_fan_speed") =>
          /\ tasks'[Len(tasks')].function = "execute_set_fan_speed"
          /\ tasks'[Len(tasks')].percent =
                (IF speed_input = <<>> THEN <<"1", "0">> ELSE speed_input)]_vars

\* A set-speed action of the button with the box empty has run to the end:
\* its set-duty command carries 0x0a.
ManualBlankWitness ==
    /\ lastAction.origin = "set_fan_speed"
    /\ lastAction.percent = <<"1", "0">>
    /\ Subs(lastAction.cmds) = <<"disable", "duty">>
    /\ lastAction.cmds[2].arg = <<"0", "a">>

\* A step that delivers a data_ready signal to update_sensor_data.
DeliversReadings ==
    signals # <<>> /\ Head(signals).sig = "data_ready" /\ signals' = Tail(signals)

\* C15: the delivery of a data_ready signal starts one control thread, that
\* of auto_adjust_fan_speed, when the box is checked, and none when it is not.
EachReadingsEventLaunchesOneAction ==
    [][DeliversReadings =>
          IF auto_adjust_checkbox
          THEN /\ Len(tasks') = Len(tasks) + 1
               /\ SubSeq(tasks', 1, Len(tasks)) = tasks
               /\ tasks'[Len(tasks')].origin = "auto_adjust_fan_speed"
          ELSE tasks' = tasks]_vars

\* A step in which the control thread at position i runs a command: the first
\* of a set-speed action, or the last command of an action, which ends it.
IssuesCommand(i) ==
    \/ /\ Len(tasks') = Len(tasks)
       /\ tasks[i].pc = "start"
       /\ tasks'[i].pc = "set_speed"
    \/ /\ tasks' = Remove(tasks, i)
       /\ lastAction'.origin = tasks[i].origin
       /\ lastAction'.function = tasks[i].function
       /\ Len(lastAction'.cmds) = Len(tasks[i].cmds) + 1

\* C16: no command of a control action is run after a command of an action
\* launched later, so the two commands of a set-speed action are not
\* separated by a command of another action.
ActionsTakeEffectInLaunchOrder ==
    [][\A i \in 1..Len(tasks) :
          IssuesCommand(i) => \A j \in (i + 1)..Len(tasks) : tasks[j].cmds = <<>>]_vars

\* C17: auto_adjust_fan_speed ends with one decision, reset or set-speed, for
\* every non-empty list of readings parse_sensor_data returns, a reading of a
\* single field included.
AutoAdjustDecidesOnEveryParsedList ==
    (lastDecision.done /\ lastDecision.data # <<>>) =>
        \/ lastDecision.function = "execute_reset_fan_control"
        \/ lastDecision.function = "execute_set_fan_speed"

\* The text holds a character that no integer literal holds.
HoldsNonNumeral(text) ==
    \E k \in 1..Len(text) :
        /\ \A d \in 1..10 : Digits[d] # text[k]
        /\ text[k] \notin {"+", "-", "_", " ", "\n"}

\* C18: a set-speed action whose percent is not an integer runs no command,
\* neither the disable command nor the set-duty command.
NonIntegerPercentRunsNoCommand ==
    /\ \A i \in 1..Len(tasks) :
           (tasks[i].function = "execute_set_fan_speed" /\ HoldsNonNumeral(tasks[i].percent))
           => (tasks[i].pc = "start" /\ tasks[i].cmds = <<>>)
    /\ (lastAction.function = "execute_set_fan_speed" /\ HoldsNonNumeral(lastAction.percent))
       => (lastAction.cmds = <<>> /\ lastAction.rcs = <<>> /\ lastAction.report = "exception")

\* The set-speed button was pressed with the text a in the box and the action
\* has ended in its except clause.
NonIntegerPercentWitness ==
    /\ lastAction.origin = "set_fan_speed"
    /\ lastAction.percent = <<"a">>
    /\ lastAction.cmds = <<>>
    /\ lastAction.report = "exception"

\* The thread's copy of the four connection fields is the GUI's current one.
SnapshotIsCurrent(self) ==
    /\ self.ipmitool_path = ipmitool_path
    /\ self.ip = ip
    /\ self.user = user
    /\ self.password = password

\* The part of C19 about the thread held: the sensor thread the GUI holds, if
\* any, was created with the current connection fields.  It holds.
ActiveSessionHoldsCurrentConfig ==
    sensor_thread # 0 =>
        (threads[sensor_thread].state # "none" /\ SnapshotIsCurrent(threads[sensor_thread]))

\* C19: after the settings are saved a sensor thread with the saved fields is
\* held, and no sensor command is begun with fields other than the current
\* ones (a command already running may finish).
NoFetchBegunWithPreviousConfig ==
    [][/\ (ipmitool_path' # ipmitool_path \/ ip' # ip \/ user' # user \/ password' # password)
          => (sensor_thread' # 0 /\ threads'[sensor_thread'].state = "loop"
                /\ threads'[sensor_thread'].ipmitool_path = ipmitool_path'
                /\ threads'[sensor_thread'].ip = ip'
                /\ threads'[sensor_thread'].user = user'
                /\ threads'[sensor_thread'].password = password')
       /\ \A t \in ThreadIds :
             (threads[t].state = "loop" /\ threads'[t].state = "exec")
             => SnapshotIsCurrent(threads[t])]_vars

====
